---- MODULE Spec2Model ----
(***************************************************************************)
(* The script deployer of sodg (src/src/script.rs): Script::deploy_to,     *)
(* Script::commands, Script::deploy_one, Script::parse_data and            *)
(* Script::parse, working on a graph (Sodg) through add, bind, put and     *)
(* next_id.  Texts are sequences of one-character strings, so that the     *)
(* regular expressions and the splitting of the code act on characters.    *)
(***************************************************************************)
EXTENDS Integers, Sequences, FiniteSets, TLC

VARIABLES
    txt,        \* Script.txt, the script text
    vars,       \* Script.vars, variable name -> vertex id
    vertices,   \* Sodg: the set of vertex ids
    edges,      \* Sodg: the set of edges <<from, label, to>>
    data,       \* Sodg: vertex id -> payload, for the vertices that carry one
    issued,     \* Sodg: the ids next_id() has returned so far
    pc,         \* where the caller is: "idle", "run", "ok", "err", "panic"
    cmds,       \* deploy_to: the vector returned by self.commands()
    pos,        \* deploy_to: the local counter pos
    result,     \* the value the last deploy_to call returned
    calls,      \* number of deploy_to calls made on this Script
    g0,         \* history: the graph when the current deploy_to call began
    vars0,      \* history: Script.vars when the current deploy_to call began
    log,        \* history: the graph mutations made by the current call
    refs,       \* history: every <<name, id>> a `$name` argument resolved to
    allocs,     \* history: the ids next_id() returned during the current call
    last,       \* history: the command handled by the latest loop iteration
    arg,        \* the string a direct call of parse_data is made with
    out         \* the value returned by a direct call of parse_data

vars_all == <<txt, vars, vertices, edges, data, issued, pc, cmds, pos, result,
              calls, g0, vars0, log, refs, allocs, last, arg, out>>

-----------------------------------------------------------------------------
(* Bounds of the model                                                     *)

MaxFrags == 3       \* a script text is made of at most MaxFrags fragments
MaxData == 3        \* a payload string has at most MaxData characters
MaxCalls == 2       \* deploy_to is called at most MaxCalls times on a Script
AllocWidth == 2     \* next_id() returns one of the AllocWidth smallest unused ids

-----------------------------------------------------------------------------
(* Characters                                                              *)

NL == "\n"
TAB == "\t"
CR == "\r"
NU == "nu"          \* stands for the one character U+03BD (Greek nu)

Whitespace == {" ", TAB, NL, CR}
Upper == {"A","B","C","D","E","F","G","H","I","J","K","L","M",
          "N","O","P","Q","R","S","T","U","V","W","X","Y","Z"}
DigitSeq == <<"0","1","2","3","4","5","6","7","8","9">>
Digits == {DigitSeq[i] : i \in 1..10}
DigitVal(c) == (CHOOSE i \in 1..10 : DigitSeq[i] = c) - 1
HexUpper == <<"A","B","C","D","E","F">>
HexLower == <<"a","b","c","d","e","f">>
HexDigits == Digits \cup {HexUpper[i] : i \in 1..6} \cup {HexLower[i] : i \in 1..6}
HexVal(c) ==
    IF c \in Digits THEN DigitVal(c)
    ELSE 9 + (CHOOSE i \in 1..6 : HexUpper[i] = c \/ HexLower[i] = c)

\* u32::MAX, 4294967295, digit by digit
U32MaxDigits == <<"4","2","9","4","9","6","7","2","9","5">>

-----------------------------------------------------------------------------
(* str::split, str::trim and the comment-stripping regular expression      *)

\* index of the first occurrence of character c in s at or after i, 0 when
\* there is none
RECURSIVE Find(_, _, _)
Find(s, c, i) ==
    IF i > Len(s) THEN 0
    ELSE IF s[i] = c THEN i
    ELSE Find(s, c, i + 1)

IndexOf(s, c) == Find(s, c, 1)

\* STRIP_COMMENTS with a slip: the regex "#.*\n?", which also takes a comment
\* that the end of the text ends
RECURSIVE STRIP_COMMENTS_to_end(_)
STRIP_COMMENTS_to_end(s) ==
    LET h == IndexOf(s, "#")
        e == Find(s, NL, h + 1)
    IN  IF h = 0 THEN s
        ELSE IF e = 0 THEN SubSeq(s, 1, h - 1)
        ELSE SubSeq(s, 1, h - 1) \o STRIP_COMMENTS_to_end(SubSeq(s, e + 1, Len(s)))

\* STRIP_COMMENTS.replace_all(text, ""): the regex "#.*\n", where `.` matches
\* any character but the line break: each match runs from a '#' to the first
\* line break after it, and a '#' with no line break after it matches nothing
RECURSIVE STRIP_COMMENTS(_)
STRIP_COMMENTS(s) ==
    LET h == IndexOf(s, "#")
        e == Find(s, NL, h + 1)
    IN  IF h = 0 \/ e = 0 THEN s
        ELSE SubSeq(s, 1, h - 1) \o STRIP_COMMENTS(SubSeq(s, e + 1, Len(s)))

\* s.split(sep): the pieces between the separators, empty pieces included
RECURSIVE split(_, _)
split(s, sep) ==
    LET e == IndexOf(s, sep)
    IN  IF e = 0 THEN <<s>>
        ELSE <<SubSeq(s, 1, e - 1)>> \o split(SubSeq(s, e + 1, Len(s)), sep)

\* index of the first character of s at or after i that is not whitespace,
\* Len(s) + 1 when there is none
RECURSIVE TrimStart(_, _)
TrimStart(s, i) ==
    IF i > Len(s) \/ s[i] \notin Whitespace THEN i ELSE TrimStart(s, i + 1)

\* index of the last character of s at or before i that is not whitespace,
\* 0 when there is none
RECURSIVE TrimEnd(_, _)
TrimEnd(s, i) ==
    IF i < 1 \/ s[i] \notin Whitespace THEN i ELSE TrimEnd(s, i - 1)

\* t.trim()
trim(s) == SubSeq(s, TrimStart(s, 1), TrimEnd(s, Len(s)))

\* .map(|t| t.trim()).filter(|t| !t.is_empty()).collect()
TrimmedNonEmpty(parts) ==
    SelectSeq([i \in 1..Len(parts) |-> trim(parts[i])], LAMBDA t : t # <<>>)

\* Script::commands
commands(text) == TrimmedNonEmpty(split(STRIP_COMMENTS(text), ";"))

-----------------------------------------------------------------------------
(* Errors: an anyhow chain of contexts, outermost first                    *)

\* one message of a chain: its fixed words, the number and the strings
\* interpolated into it
E(msg, k, text) == [msg |-> msg, k |-> k, text |-> text]

NoValue == [tag |-> "None", n |-> 0, chain |-> <<>>]
Ok(n) == [tag |-> "Ok", n |-> n, chain |-> <<>>]
Err(chain) == [tag |-> "Err", n |-> 0, chain |-> chain]

-----------------------------------------------------------------------------
(* The regular expression LINE of deploy_one                               *)

\* number of characters of s, from index i on, that belong to set S without
\* interruption
RECURSIVE SpanFrom(_, _, _)
SpanFrom(s, S, i) ==
    IF i <= Len(s) /\ s[i] \in S THEN 1 + SpanFrom(s, S, i + 1) ELSE 0

\* number of leading characters of s that belong to set S
Span(s, S) == SpanFrom(s, S, 1)

\* LINE.captures(cmd) for "^([A-Z]+) *\(([^)]*)\)$": matched, cap[1], cap[2]
LINE(cmd) ==
    LET n == Len(cmd)
        up == Span(cmd, Upper)
        sp == SpanFrom(cmd, {" "}, up + 1)
        open == up + sp + 1
    IN  IF /\ up >= 1
           /\ open < n
           /\ cmd[open] = "("
           /\ cmd[n] = ")"
           /\ \A i \in (open + 1)..(n - 1) : cmd[i] # ")"
        THEN [matched |-> TRUE, op |-> SubSeq(cmd, 1, up),
              inner |-> SubSeq(cmd, open + 1, n - 1)]
        ELSE [matched |-> FALSE, op |-> <<>>, inner |-> <<>>]

\* cap[2].split(',').map(trim).filter(non-empty).collect()
Args(inner) == TrimmedNonEmpty(split(inner, ","))

-----------------------------------------------------------------------------
(* u32::from_str and Script::parse_data                                    *)

RECURSIVE Decimal(_)
Decimal(s) ==
    IF s = <<>> THEN 0
    ELSE 10 * Decimal(SubSeq(s, 1, Len(s) - 1)) + DigitVal(s[Len(s)])

\* the decimal digits ds denote a value that fits 32 bits
FitsU32(ds) ==
    LET z == Span(ds, {"0"})
        sig == SubSeq(ds, z + 1, Len(ds))
        m == U32MaxDigits
    IN  \/ Len(sig) < Len(m)
        \/ /\ Len(sig) = Len(m)
           /\ \A i \in 1..Len(m) :
                 (\A j \in 1..(i - 1) : sig[j] = m[j])
                     => DigitVal(sig[i]) <= DigitVal(m[i])

\* u32::from_str(s): an optional '+', then one or more decimal digits, and
\* a value that fits 32 bits
from_str(s) ==
    LET body == IF Len(s) > 1 /\ Head(s) = "+" THEN Tail(s) ELSE s
    IN  IF /\ body # <<>>
           /\ \A i \in 1..Len(body) : body[i] \in Digits
           /\ FitsU32(body)
        THEN [ok |-> TRUE, v |-> Decimal(body)]
        ELSE [ok |-> FALSE, v |-> 0]

\* DATA_STRIP with a slip: the '-' is left out of the character class
DATA_STRIP_spaces(s) == SelectSeq(s, LAMBDA c : c \notin Whitespace)

\* DATA_STRIP.replace_all(s, ""): the regex "[ \t\n\r\-]"
DATA_STRIP(s) == SelectSeq(s, LAMBDA c : c \notin (Whitespace \cup {"-"}))

\* DATA with a slip: the regex "^[0-9A-Fa-f]+$", which takes a lone digit
DATA_any_length(d) ==
    /\ Len(d) >= 1
    /\ \A i \in 1..Len(d) : d[i] \in HexDigits

\* DATA.is_match(d): the regex "^[0-9A-Fa-f]{2}([0-9A-Fa-f]{2})*$"
DATA(d) ==
    /\ Len(d) >= 2
    /\ Len(d) % 2 = 0
    /\ \A i \in 1..Len(d) : d[i] \in HexDigits

\* Script::parse_data
parse_data(s) ==
    LET d == DATA_STRIP(s)
    IN  IF DATA(d)
        THEN [ok |-> TRUE,
              bytes |-> [i \in 1..(Len(d) \div 2) |->
                            16 * HexVal(d[2 * i - 1]) + HexVal(d[2 * i])],
              err |-> <<>>]
        ELSE [ok |-> FALSE, bytes |-> <<>>,
              err |-> <<E("Can't parse data", -1, <<s>>)>>]

-----------------------------------------------------------------------------
(* The graph: Sodg::add, Sodg::bind, Sodg::put, Sodg::next_id              *)
(* A state st is a record of Script.vars, the graph and the histories refs *)
(* and allocs.                                                             *)

EmptyMap == [x \in {} |-> 0]

\* Sodg::add: fails if the id is already present
add(st, v) ==
    IF v \in st.vertices
    THEN [ok |-> FALSE, st |-> st, err |-> <<E("vertex already exists", v, <<>>)>>]
    ELSE [ok |-> TRUE, st |-> [st EXCEPT !.vertices = @ \cup {v}], err |-> <<>>]

\* Sodg::bind: fails if an endpoint is missing or the label is already used
\* on the departing vertex
bind(st, v1, v2, a) ==
    IF v1 \notin st.vertices \/ v2 \notin st.vertices
    THEN [ok |-> FALSE, st |-> st, err |-> <<E("vertex is absent", v1, <<>>)>>]
    ELSE IF \E e \in st.edges : e[1] = v1 /\ e[2] = a
    THEN [ok |-> FALSE, st |-> st, err |-> <<E("edge already exists", v1, <<a>>)>>]
    ELSE [ok |-> TRUE, st |-> [st EXCEPT !.edges = @ \cup {<<v1, a, v2>>}],
          err |-> <<>>]

\* Sodg::put: fails if the vertex is missing
put(st, v, d) ==
    IF v \notin st.vertices
    THEN [ok |-> FALSE, st |-> st, err |-> <<E("vertex is absent", v, <<>>)>>]
    ELSE [ok |-> TRUE,
          st |-> [st EXCEPT !.data =
                     [x \in (DOMAIN @) \cup {v} |-> IF x = v THEN d ELSE @[x]]],
          err |-> <<>>]

\* the ids Sodg::next_id may return: never used before in this graph
FreshIds(st) ==
    LET used == st.vertices \cup st.issued
        pool == (0..(Cardinality(used) + AllocWidth - 1)) \ used
    IN  {i \in pool : Cardinality({j \in pool : j < i}) < AllocWidth}

\* Sodg::next_id, returning id: the graph remembers that id is used
next_id(st, id) ==
    [st EXCEPT !.issued = @ \cup {id}, !.allocs = Append(@, id)]

-----------------------------------------------------------------------------
(* Script::parse                                                           *)

\* entry_or_insert with a slip: the table entry is overwritten by a fresh id
\* at every reference (insert instead of entry().or_insert_with())
entry_always_insert(tail, st) ==
    {[ok |-> TRUE, v |-> id, err |-> <<>>,
      st |-> [next_id(st, id) EXCEPT
                 !.vars = [n \in (DOMAIN @) \cup {tail} |->
                              IF n = tail THEN id ELSE @[n]],
                 !.refs = Append(@, <<tail, id>>)]]
     : id \in FreshIds(st)}

\* entry_or_insert with a slip: the id is computed from the graph without
\* the graph recording that it is now used
entry_without_reserving(tail, st) ==
    IF tail \in DOMAIN st.vars
    THEN {[ok |-> TRUE, v |-> st.vars[tail], err |-> <<>>,
           st |-> [st EXCEPT !.refs = Append(@, <<tail, st.vars[tail]>>)]]}
    ELSE {[ok |-> TRUE, v |-> id, err |-> <<>>,
           st |-> [st EXCEPT
                      !.vars = [n \in (DOMAIN @) \cup {tail} |->
                                   IF n = tail THEN id ELSE @[n]],
                      !.refs = Append(@, <<tail, id>>)]]
          : id \in FreshIds(st)}

\* self.vars.entry(tail).or_insert_with(|| g.next_id()): the possible results
entry_or_insert(tail, st) ==
    IF tail \in DOMAIN st.vars
    THEN {[ok |-> TRUE, v |-> st.vars[tail], err |-> <<>>,
           st |-> [st EXCEPT !.refs = Append(@, <<tail, st.vars[tail]>>)]]}
    ELSE {[ok |-> TRUE, v |-> id, err |-> <<>>,
           st |-> [next_id(st, id) EXCEPT
                      !.vars = [n \in (DOMAIN @) \cup {tail} |->
                                   IF n = tail THEN id ELSE @[n]],
                      !.refs = Append(@, <<tail, id>>)]]
          : id \in FreshIds(st)}

\* u32::from_str(t).context(format!("Parsing of '{s}' failed"))
literal(t, s, st) ==
    IF from_str(t).ok
    THEN {[ok |-> TRUE, v |-> from_str(t).v, err |-> <<>>, st |-> st]}
    ELSE {[ok |-> FALSE, v |-> 0, st |-> st,
           err |-> <<E("Parsing of failed", -1, <<s>>),
                     E("ParseIntError", -1, <<>>)>>]}

\* parse with a slip: a leading 'ν' makes a variable, as a leading '$' does
parse_nu_as_variable(s, st) ==
    IF s = <<>>
    THEN {[ok |-> FALSE, v |-> 0, st |-> st,
           err |-> <<E("Empty identifier", -1, <<>>)>>]}
    ELSE IF Head(s) = "$" \/ Head(s) = NU
         THEN entry_or_insert(Tail(s), st)
         ELSE literal(s, s, st)

\* Script::parse(s, g): the set of its possible results [ok, v, err, st]
parse(s, st) ==
    IF s = <<>>
    THEN {[ok |-> FALSE, v |-> 0, st |-> st,
           err |-> <<E("Empty identifier", -1, <<>>)>>]}
    ELSE IF Head(s) = "$" \/ Head(s) = NU
         THEN IF Head(s) = "$"
              THEN entry_or_insert(Tail(s), st)
              ELSE literal(Tail(s), s, st)
         ELSE literal(s, s, st)

-----------------------------------------------------------------------------
(* Script::deploy_one                                                      *)
(* An outcome is [kind, st, err, mut]: kind is "ok" (Ok(())), "err" (Err)  *)
(* or "panic" (an index out of the bounds of args); mut is the mutation    *)
(* made on the graph.                                                      *)

OP_ADD == <<"A", "D", "D">>
OP_BIND == <<"B", "I", "N", "D">>
OP_PUT == <<"P", "U", "T">>

NoMut == [op |-> "none", v |-> 0, to |-> 0, a |-> <<>>, d |-> <<>>]
Done(st, mut) == [kind |-> "ok", st |-> st, err |-> <<>>, mut |-> mut]
Failed(st, err) == [kind |-> "err", st |-> st, err |-> err, mut |-> NoMut]
Panicked(st) == [kind |-> "panic", st |-> st, err |-> <<>>, mut |-> NoMut]

\* the arm "ADD" with a slip: the result of g.add is dropped
deploy_ADD_unchecked(args, st) ==
    IF Len(args) < 1 THEN {Panicked(st)}
    ELSE {IF ~p.ok THEN Failed(p.st, p.err)
          ELSE Done(add(p.st, p.v).st, [NoMut EXCEPT !.op = "add", !.v = p.v])
          : p \in parse(args[1], st)}

\* the arm "ADD" of the match
deploy_ADD(args, st) ==
    IF Len(args) < 1 THEN {Panicked(st)}
    ELSE {IF ~p.ok THEN Failed(p.st, p.err)
          ELSE LET r == add(p.st, p.v)
               IN  IF r.ok
                   THEN Done(r.st, [NoMut EXCEPT !.op = "add", !.v = p.v])
                   ELSE Failed(r.st, <<E("Failed to ADD", -1, <<args[1]>>)>> \o r.err)
          : p \in parse(args[1], st)}

\* the arm "BIND" of the match, once v1 is known
deploy_BIND_2(args, st, v1) ==
    IF Len(args) < 2 THEN {Panicked(st)}
    ELSE {IF ~q.ok THEN Failed(q.st, q.err)
          ELSE IF Len(args) < 3 THEN Panicked(q.st)
          ELSE LET r == bind(q.st, v1, q.v, args[3])
               IN  IF r.ok
                   THEN Done(r.st, [NoMut EXCEPT !.op = "bind", !.v = v1,
                                                 !.to = q.v, !.a = args[3]])
                   ELSE Failed(r.st, <<E("Failed to BIND", -1,
                                         <<args[1], args[2], args[3]>>)>> \o r.err)
          : q \in parse(args[2], st)}

\* the arm "BIND" with a slip: the second argument is resolved before the
\* first
deploy_BIND_swapped(args, st) ==
    IF Len(args) < 2 THEN {Panicked(st)}
    ELSE UNION {IF ~q.ok THEN {Failed(q.st, q.err)}
                ELSE {IF ~p.ok THEN Failed(p.st, p.err)
                      ELSE IF Len(args) < 3 THEN Panicked(p.st)
                      ELSE LET r == bind(p.st, p.v, q.v, args[3])
                           IN  IF r.ok
                               THEN Done(r.st, [NoMut EXCEPT !.op = "bind", !.v = p.v,
                                                             !.to = q.v, !.a = args[3]])
                               ELSE Failed(r.st, <<E("Failed to BIND", -1,
                                                     <<args[1], args[2], args[3]>>)>>
                                                 \o r.err)
                      : p \in parse(args[1], q.st)}
                : q \in parse(args[2], st)}

\* the arm "BIND" of the match
deploy_BIND(args, st) ==
    IF Len(args) < 1 THEN {Panicked(st)}
    ELSE UNION {IF ~p.ok THEN {Failed(p.st, p.err)}
                ELSE deploy_BIND_2(args, p.st, p.v)
                : p \in parse(args[1], st)}

\* the arm "PUT" with a slip: the vertex gets an empty payload before the
\* data are parsed
deploy_PUT_early(args, st) ==
    IF Len(args) < 1 THEN {Panicked(st)}
    ELSE {IF ~p.ok THEN Failed(p.st, p.err)
          ELSE IF Len(args) < 2 THEN Panicked(p.st)
          ELSE LET d == parse_data(args[2])
                   e == put(p.st, p.v, <<>>)
               IN  IF ~d.ok THEN Failed(e.st, d.err)
                   ELSE LET r == put(p.st, p.v, d.bytes)
                        IN  IF r.ok
                            THEN Done(r.st, [NoMut EXCEPT !.op = "put", !.v = p.v,
                                                          !.d = d.bytes])
                            ELSE Failed(r.st, <<E("Failed to PUT", -1, <<args[1]>>)>>
                                              \o r.err)
          : p \in parse(args[1], st)}

\* the arm "PUT" with a slip: a vertex that is absent is added before the put
deploy_PUT_upsert(args, st) ==
    IF Len(args) < 1 THEN {Panicked(st)}
    ELSE {IF ~p.ok THEN Failed(p.st, p.err)
          ELSE IF Len(args) < 2 THEN Panicked(p.st)
          ELSE LET d == parse_data(args[2])
               IN  IF ~d.ok THEN Failed(p.st, d.err)
                   ELSE LET r == put(add(p.st, p.v).st, p.v, d.bytes)
                        IN  IF r.ok
                            THEN Done(r.st, [NoMut EXCEPT !.op = "put", !.v = p.v,
                                                          !.d = d.bytes])
                            ELSE Failed(r.st, <<E("Failed to PUT", -1, <<args[1]>>)>>
                                              \o r.err)
          : p \in parse(args[1], st)}

\* the arm "PUT" of the match
deploy_PUT(args, st) ==
    IF Len(args) < 1 THEN {Panicked(st)}
    ELSE {IF ~p.ok THEN Failed(p.st, p.err)
          ELSE IF Len(args) < 2 THEN Panicked(p.st)
          ELSE LET d == parse_data(args[2])
               IN  IF ~d.ok THEN Failed(p.st, d.err)
                   ELSE LET r == put(p.st, p.v, d.bytes)
                        IN  IF r.ok
                            THEN Done(r.st, [NoMut EXCEPT !.op = "put", !.v = p.v,
                                                          !.d = d.bytes])
                            ELSE Failed(r.st, <<E("Failed to PUT", -1, <<args[1]>>)>>
                                              \o r.err)
          : p \in parse(args[1], st)}

\* deploy_one with a slip: the first argument is resolved before the opcode
\* is matched
deploy_one_eager(cmd, st) ==
    LET cap == LINE(cmd)
        args == Args(cap.inner)
    IN  IF ~cap.matched THEN {Failed(st, <<E("Can't parse", -1, <<cmd>>)>>)}
        ELSE IF cap.op = OP_ADD THEN deploy_ADD(args, st)
        ELSE IF cap.op = OP_BIND THEN deploy_BIND(args, st)
        ELSE IF cap.op = OP_PUT THEN deploy_PUT(args, st)
        ELSE IF Len(args) < 1
             THEN {Failed(st, <<E("Unknown command", -1, <<cap.op>>)>>)}
        ELSE {Failed(p.st, <<E("Unknown command", -1, <<cap.op>>)>>)
              : p \in parse(args[1], st)}

\* Script::deploy_one(cmd, g): the set of its possible outcomes
deploy_one(cmd, st) ==
    LET cap == LINE(cmd)
        args == Args(cap.inner)
    IN  IF ~cap.matched THEN {Failed(st, <<E("Can't parse", -1, <<cmd>>)>>)}
        ELSE IF cap.op = OP_ADD THEN deploy_ADD(args, st)
        ELSE IF cap.op = OP_BIND THEN deploy_BIND(args, st)
        ELSE IF cap.op = OP_PUT THEN deploy_PUT(args, st)
        ELSE {Failed(st, <<E("Unknown command", -1, <<cap.op>>)>>)}

-----------------------------------------------------------------------------
(* The script texts and the starting graphs the model explores             *)

\* "ADD(0);"
F_add0 == <<"A", "D", "D", "(", "0", ")", ";">>
\* " ADD( $a ) ; ;"
F_addA == <<" ", "A", "D", "D", "(", " ", "$", "a", " ", ")", " ", ";", " ", ";">>
\* "BIND(v0, $a, x);" with v the Greek nu
F_bind == <<"B", "I", "N", "D", "(", NU, "0", ",", " ", "$", "a", ",", " ", "x", ")", ";">>
\* "BIND($a,$b,x);"
F_bindAB == <<"B", "I", "N", "D", "(", "$", "a", ",", "$", "b", ",", "x", ")", ";">>
\* "PUT($a, 0F);#c;" and a line break
F_putA == <<"P", "U", "T", "(", "$", "a", ",", " ", "0", "F", ")", ";", "#", "c", ";", NL>>
\* "PUT($a,zz);"
F_putBad == <<"P", "U", "T", "(", "$", "a", ",", "z", "z", ")", ";">>
\* "DEL($b);"
F_del == <<"D", "E", "L", "(", "$", "b", ")", ";">>
\* "ADD();"
F_addNone == <<"A", "D", "D", "(", ")", ";">>
\* "ADD(1,0);#c"
F_addTwo == <<"A", "D", "D", "(", "1", ",", "0", ")", ";", "#", "c">>

Fragments == {F_add0, F_addA, F_bind, F_bindAB, F_putA, F_putBad, F_del,
              F_addNone, F_addTwo}

RECURSIVE Concat(_)
Concat(ss) == IF ss = <<>> THEN <<>> ELSE Head(ss) \o Concat(Tail(ss))

Texts == {Concat(f) : f \in UNION {[1..n -> Fragments] : n \in 1..MaxFrags}}

EmptyGraph == [vertices |-> {}, edges |-> {}, data |-> EmptyMap, issued |-> {}]

\* the graphs a deployment may start from
StartGraphs ==
    { EmptyGraph,
      [vertices |-> {0, 1}, edges |-> {<<0, <<"x">>, 1>>},
       data |-> [v \in {1} |-> <<15>>], issued |-> {}] }

\* the characters of a payload string: hex digits in both cases, two
\* separators and a character that is neither
DataChars == {"0", "a", "A", "-", " ", "z"}

\* the payload strings parse_data is called with
Payloads == UNION {[1..n -> DataChars] : n \in 0..MaxData}

\* the script that puts the payload h on vertex 0
PutText(h) == <<"P", "U", "T", "(", "0", ",">> \o h \o <<")", ";">>

\* the graph with vertex 0 and nothing else
OneVertex == [vertices |-> {0}, edges |-> {}, data |-> EmptyMap, issued |-> {}]

-----------------------------------------------------------------------------
(* The state machine                                                       *)

Graph == [vertices |-> vertices, edges |-> edges, data |-> data, issued |-> issued]

\* the state deploy_one works on
St == [vars |-> vars, vertices |-> vertices, edges |-> edges, data |-> data,
       issued |-> issued, refs |-> refs, allocs |-> allocs]

NoLast == [k |-> -1, cmd |-> <<>>, kind |-> "none", pre |-> EmptyGraph,
           vars |-> EmptyMap]

\* parse_data has not been called directly
NoData == [ok |-> FALSE, bytes |-> <<>>, err |-> <<>>]

\* Script::from_str, and the graph the caller holds
Init ==
    /\ txt \in Texts
    /\ vars = EmptyMap
    /\ \E g \in StartGraphs :
          /\ vertices = g.vertices
          /\ edges = g.edges
          /\ data = g.data
          /\ issued = g.issued
    /\ pc = "idle"
    /\ cmds = <<>>
    /\ pos = 0
    /\ result = NoValue
    /\ calls = 0
    /\ g0 = EmptyGraph
    /\ vars0 = EmptyMap
    /\ log = <<>>
    /\ refs = <<>>
    /\ allocs = <<>>
    /\ last = NoLast
    /\ arg = <<>>
    /\ out = NoData

\* let mut pos = 0
pos_init == 0

\* NextCmd with a slip: the vector is walked from its end
NextCmd_reversed(cs, p) == cs[Len(cs) - p]

\* `for cmd in self.commands().iter()`: the command of the iteration that
\* follows p completed iterations
NextCmd(cs, p) == cs[p + 1]

\* with_context with a slip: the one-based number of the trace message
with_context_one_based(p, cmd, err) ==
    <<E("Failure at the command no.", p + 1, <<cmd>>)>> \o err

\* .context(format!("Failure at the command no.{pos}: '{cmd}'"))
with_context(p, cmd, err) ==
    <<E("Failure at the command no.", p, <<cmd>>)>> \o err

\* PosAfter with a slip: `pos += 1` comes before the `?`
PosAfter_eager(p, kind) == p + 1

\* the counter after an iteration: `?` returns before `pos += 1`
PosAfter(p, kind) == IF kind = "ok" THEN p + 1 ELSE p

\* deploy_to_result with a slip: the one-based number of the trace message
deploy_to_result_one_based(p) == Ok(p + 1)

\* Ok(pos)
deploy_to_result(p) == Ok(p)

\* the entry of Script::deploy_to(g), called with graph g
Enter(g) ==
    /\ pc \in {"idle", "ok", "err"}
    /\ calls < MaxCalls
    /\ calls' = calls + 1
    /\ vertices' = g.vertices
    /\ edges' = g.edges
    /\ data' = g.data
    /\ issued' = g.issued
    /\ cmds' = commands(txt)
    /\ pos' = pos_init
    /\ pc' = "run"
    /\ result' = NoValue
    /\ g0' = g
    /\ vars0' = vars
    /\ log' = <<>>
    /\ refs' = <<>>
    /\ allocs' = <<>>
    /\ last' = NoLast
    /\ UNCHANGED <<txt, vars, arg, out>>

\* deploy_to is called with the graph the caller holds
DeployTo == Enter(Graph)

\* deploy_to is called again, with a new graph: Sodg::empty()
DeployToOther ==
    /\ calls >= 1
    /\ Enter(EmptyGraph)

\* one iteration of the loop of deploy_to: deploy_one, `?` and `pos += 1`
DeployOne ==
    /\ pc = "run"
    /\ pos < Len(cmds)
    /\ LET cmd == NextCmd(cmds, pos)
       IN  \E o \in deploy_one(cmd, St) :
              /\ vars' = o.st.vars
              /\ vertices' = o.st.vertices
              /\ edges' = o.st.edges
              /\ data' = o.st.data
              /\ issued' = o.st.issued
              /\ refs' = o.st.refs
              /\ allocs' = o.st.allocs
              /\ pc' = IF o.kind = "ok" THEN "run" ELSE o.kind
              /\ pos' = PosAfter(pos, o.kind)
              /\ result' = IF o.kind = "err"
                           THEN Err(with_context(pos, cmd, o.err))
                           ELSE result
              /\ log' = IF o.kind = "ok"
                        THEN Append(log, [cmd |-> cmd, mut |-> o.mut])
                        ELSE log
              /\ last' = [k |-> Len(log), cmd |-> cmd, kind |-> o.kind,
                          pre |-> Graph, vars |-> vars]
    /\ UNCHANGED <<txt, cmds, calls, g0, vars0, arg, out>>

\* the loop is over: Ok(pos)
Return ==
    /\ pc = "run"
    /\ pos >= Len(cmds)
    /\ pc' = "ok"
    /\ result' = deploy_to_result(pos)
    /\ UNCHANGED <<txt, vars, vertices, edges, data, issued, cmds, pos, calls,
                   g0, vars0, log, refs, allocs, last, arg, out>>

Next == DeployTo \/ DeployToOther \/ DeployOne \/ Return

Spec == Init /\ [][Next]_vars_all

-----------------------------------------------------------------------------
(* Script::parse_data on its own, and through the script PUT(0, h)         *)

\* Script::from_str("PUT(0,h);") for a payload string h, and a graph with
\* vertex 0
InitData ==
    /\ arg \in Payloads
    /\ txt = PutText(arg)
    /\ vars = EmptyMap
    /\ vertices = OneVertex.vertices
    /\ edges = OneVertex.edges
    /\ data = OneVertex.data
    /\ issued = OneVertex.issued
    /\ pc = "idle"
    /\ cmds = <<>>
    /\ pos = 0
    /\ result = NoValue
    /\ calls = 0
    /\ g0 = EmptyGraph
    /\ vars0 = EmptyMap
    /\ log = <<>>
    /\ refs = <<>>
    /\ allocs = <<>>
    /\ last = NoLast
    /\ out = NoData

\* Script::parse_data(arg), called before the script is deployed
ParseData ==
    /\ pc = "idle"
    /\ out = NoData
    /\ out' = parse_data(arg)
    /\ UNCHANGED <<txt, vars, vertices, edges, data, issued, pc, cmds, pos,
                   result, calls, g0, vars0, log, refs, allocs, last, arg>>

\* deploy_to is called on the script, after the direct call
DeployParsed ==
    /\ out # NoData
    /\ DeployTo

NextData == ParseData \/ DeployParsed \/ DeployOne \/ Return

SpecData == InitData /\ [][NextData]_vars_all

-----------------------------------------------------------------------------
(* Definitions the properties below are stated with                       *)

\* Sodg::len: the number of vertices
len(g) == Cardinality(g.vertices)

\* what a caller can observe of a graph: vertices, edges and payloads
Visible(g) == [vertices |-> g.vertices, edges |-> g.edges, data |-> g.data]

\* the effect of one recorded mutation on the observable graph
ApplyMut(g, m) ==
    IF m.op = "add" THEN [g EXCEPT !.vertices = @ \cup {m.v}]
    ELSE IF m.op = "bind" THEN [g EXCEPT !.edges = @ \cup {<<m.v, m.a, m.to>>}]
    ELSE IF m.op = "put"
         THEN [g EXCEPT !.data = [x \in (DOMAIN @) \cup {m.v} |->
                                     IF x = m.v THEN m.d ELSE @[x]]]
    ELSE g

\* the observable graph after the first n recorded mutations, applied in order
RECURSIVE Replay(_, _, _)
Replay(g, l, n) ==
    IF n = 0 THEN g ELSE ApplyMut(Replay(g, l, n - 1), l[n].mut)

\* the mutation the opcode of a command stands for
MutOf(cmd) ==
    LET op == LINE(cmd).op
    IN  IF op = OP_ADD THEN "add"
        ELSE IF op = OP_BIND THEN "bind"
        ELSE IF op = OP_PUT THEN "put"
        ELSE "none"

\* number of segments of the text, once comments are removed, that are
\* delimited by ';' and hold a character that is not whitespace: counted by
\* the first such character of each segment
SegmentCount(text) ==
    LET clean == STRIP_COMMENTS(text)
    IN  Cardinality({i \in 1..Len(clean) :
            /\ clean[i] \notin Whitespace \cup {";"}
            /\ \A j \in 1..(i - 1) :
                  (\A m \in j..(i - 1) : clean[m] # ";") => clean[j] \in Whitespace})

\* a from index i on is b from index j on with some characters left out, the
\* others in the same order
RECURSIVE SubsequenceFrom(_, _, _, _)
SubsequenceFrom(a, b, i, j) ==
    IF i > Len(a) THEN TRUE
    ELSE IF j > Len(b) THEN FALSE
    ELSE IF a[i] = b[j] THEN SubsequenceFrom(a, b, i + 1, j + 1)
    ELSE SubsequenceFrom(a, b, i, j + 1)

IsSubsequence(a, b) == SubsequenceFrom(a, b, 1, 1)

InCall == pc \in {"run", "ok", "err", "panic"}

\* the arguments of a command that stand for vertices, as written: the first
\* of ADD and PUT, the first two of BIND
VertexArgs(cmd) ==
    LET a == Args(LINE(cmd).inner)
        n == IF MutOf(cmd) = "bind" THEN 2
             ELSE IF MutOf(cmd) = "none" THEN 0
             ELSE 1
    IN  SubSeq(a, 1, IF Len(a) < n THEN Len(a) ELSE n)

\* the names of the `$name` arguments among them, left to right
VarNames(cmd) ==
    LET v == SelectSeq(VertexArgs(cmd), LAMBDA x : Head(x) = "$")
    IN  [i \in 1..Len(v) |-> Tail(v[i])]

\* the names referred to by the first n recorded commands, in textual order
RECURSIVE NamesOf(_, _)
NamesOf(l, n) ==
    IF n = 0 THEN <<>> ELSE NamesOf(l, n - 1) \o VarNames(l[n].cmd)

\* a is the beginning of b
IsPrefix(a, b) == Len(a) <= Len(b) /\ a = SubSeq(b, 1, Len(a))

\* the positions of refs that are the first reference of a name that the
\* table did not hold when the call began
FirstRefs ==
    {i \in 1..Len(refs) :
        /\ refs[i][1] \notin DOMAIN vars0
        /\ \A j \in 1..(i - 1) : refs[j][1] # refs[i][1]}

\* literal references, and the id each one stands for
LiteralIds ==
    (<<"0">> :> 0) @@ (<<NU, "0">> :> 0) @@ (<<"1">> :> 1) @@ (<<NU, "1">> :> 1) @@
    (<<"1", "2">> :> 12) @@ (<<NU, "1", "2">> :> 12)

\* the variable tables a literal is resolved under: the table as it is, and
\* with variables added whose names are the texts of literals
TablesWith(t) ==
    {t, [n \in (DOMAIN t) \cup {<<"1">>, <<NU, "1">>} |->
            IF n \in DOMAIN t THEN t[n] ELSE 7]}

\* the id a vertex argument stands for once its command has run, -1 when it
\* stands for none
IdOf(x) ==
    IF Head(x) = "$"
    THEN IF Tail(x) \in DOMAIN vars THEN vars[Tail(x)] ELSE -1
    ELSE IF x \in DOMAIN LiteralIds THEN LiteralIds[x] ELSE -1

\* every edge joins two vertices of the graph, and every payload is on one
WellFormed(g) ==
    /\ \A e \in g.edges : e[1] \in g.vertices /\ e[3] \in g.vertices
    /\ DOMAIN g.data \subseteq g.vertices

\* commands that do not have the shape OPCODE(args), with a variable that
\* no script binds
Shapeless ==
    { <<"a", "d", "d", "(", "$", "c", ")">>,
      <<"A", "D", "D", "(", "$", "c">>,
      <<"A", "D", "D", " ", "$", "c", ",", "$", "d">> }

\* commands of an opcode that is not known, with no, one and two arguments
Unknown ==
    { <<"N", "O", "P", "(", ")">>,
      <<"N", "O", "P", "(", "$", "c", ")">>,
      <<"N", "O", "P", "(", "$", "c", ",", "$", "d", ")">> }

\* the character of index i of text is part of a comment that a line break
\* ends: a '#' comes before it on its line, and a line break after it
InComment(text, i) ==
    /\ \E j \in 1..i : text[j] = "#" /\ \A m \in j..(i - 1) : text[m] # NL
    /\ \E e \in i..Len(text) : text[e] = NL

\* the characters of text that are of no such comment, and are neither
\* whitespace nor ';'
RECURSIVE Content(_, _)
Content(text, i) ==
    IF i > Len(text) THEN <<>>
    ELSE IF text[i] \in Whitespace \cup {";"} \/ InComment(text, i)
         THEN Content(text, i + 1)
    ELSE <<text[i]>> \o Content(text, i + 1)

\* s holds the character c
Holds(s, c) == \E i \in 1..Len(s) : s[i] = c

\* the characters parse_data is said to ignore
Separators == {" ", TAB, NL, CR, "-"}

\* the lower-case letter of each upper-case hex letter
LowerOf ==
    ("A" :> "a") @@ ("B" :> "b") @@ ("C" :> "c") @@ ("D" :> "d") @@
    ("E" :> "e") @@ ("F" :> "f")

\* s without its separators
RECURSIVE Remainder(_)
Remainder(s) ==
    IF s = <<>> THEN <<>>
    ELSE IF Head(s) \in Separators THEN Remainder(Tail(s))
    ELSE <<Head(s)>> \o Remainder(Tail(s))

\* s without its separators and with its hex letters in lower case: two
\* strings differ only in separators and letter case when this is the same
\* for both
Canon(s) ==
    LET d == Remainder(s)
    IN  [i \in 1..Len(d) |-> IF d[i] \in DOMAIN LowerOf THEN LowerOf[d[i]] ELSE d[i]]

CanonOf == [h \in Payloads |-> Canon(h)]

\* the value of each hex digit
HexTable ==
    ("0" :> 0) @@ ("1" :> 1) @@ ("2" :> 2) @@ ("3" :> 3) @@ ("4" :> 4) @@
    ("5" :> 5) @@ ("6" :> 6) @@ ("7" :> 7) @@ ("8" :> 8) @@ ("9" :> 9) @@
    ("a" :> 10) @@ ("b" :> 11) @@ ("c" :> 12) @@ ("d" :> 13) @@ ("e" :> 14) @@
    ("f" :> 15) @@ ("A" :> 10) @@ ("B" :> 11) @@ ("C" :> 12) @@ ("D" :> 13) @@
    ("E" :> 14) @@ ("F" :> 15)

-----------------------------------------------------------------------------
(* Properties                                                              *)

\* C1: when deploy_to fails at the command of index k, the graph is the
\* starting graph with the mutations of the commands 0..k-1 applied in
\* order, and nothing else: the failing command has added no vertex, edge or
\* payload, and no later command has been applied.
C1_PartialFailure ==
    pc \in {"err", "panic"} =>
        LET k == Len(log)
            all == commands(txt)
        IN  /\ k < Len(all)
            /\ last.cmd = all[k + 1]
            /\ \A i \in 1..k : log[i].cmd = all[i] /\ log[i].mut.op = MutOf(all[i])
            /\ Visible(Graph) = Replay(Visible(g0), log, k)
            /\ Visible(Graph) = Visible(last.pre)

\* two commands were applied and changed the graph, the third one failed
C1_Witness ==
    /\ pc = "err"
    /\ Len(log) = 2
    /\ Visible(Graph) # Visible(g0)
    /\ MutOf(last.cmd) # "none"

\* C2: when deploy_to returns Ok(n), n is the number of non-empty,
\* non-comment segments of the script text.
C2_OkCount ==
    pc = "ok" => result.tag = "Ok" /\ result.n = SegmentCount(txt)

\* Ok(2) for a text with a comment and with more than three ';'
C2_Witness ==
    /\ pc = "ok"
    /\ result.n = 2
    /\ \E i \in 1..Len(txt) : txt[i] = "#"
    /\ Len(split(txt, ";")) > 4

\* C3: no step changes or removes an entry of the variable table, and all
\* the references to one `$name` in a deployment resolve to the same id.
C3_StableBindings ==
    [][ /\ \A n \in DOMAIN vars : n \in DOMAIN vars' /\ vars'[n] = vars[n]
        /\ \A i, j \in 1..Len(refs') :
              refs'[i][1] = refs'[j][1] => refs'[i][2] = refs'[j][2]
      ]_vars_all

\* a name was referenced by two commands of one deployment
C3_Witness ==
    /\ Len(refs) >= 2
    /\ Len(log) >= 1
    /\ refs[1][1] = refs[Len(refs)][1]

\* C4: two distinct variable names never resolve to the same id.
C4_DistinctIds ==
    /\ \A n1, n2 \in DOMAIN vars : n1 # n2 => vars[n1] # vars[n2]
    /\ \A i, j \in 1..Len(refs) : refs[i][1] # refs[j][1] => refs[i][2] # refs[j][2]

\* two names first referenced by the same command, no vertex added so far
C4_Witness ==
    /\ Cardinality(DOMAIN vars) = 2
    /\ calls = 1
    /\ log = <<>>
    /\ vertices = {}
    /\ Len(refs) = 2

\* C5: the mutations made on the graph are, in order, those of the
\* tokenized commands, one per successful command, and the tokenized
\* commands are in the order of the text.
C5_TextualOrder ==
    InCall =>
        LET all == commands(txt)
        IN  /\ Len(log) <= Len(all)
            /\ \A i \in 1..Len(log) :
                  log[i].cmd = all[i] /\ log[i].mut.op = MutOf(all[i])
            /\ pc \in {"run", "ok"} => Len(log) = pos
            /\ pc = "ok" => Len(log) = Len(all)
            /\ log = <<>> => IsSubsequence(Concat(all), txt)
            /\ Visible(Graph) = Replay(Visible(g0), log, Len(log))

\* three different commands were applied, a BIND last
C5_Witness ==
    /\ pc = "ok"
    /\ Len(log) = 3
    /\ log[1].cmd # log[2].cmd
    /\ log[3].mut.op = "bind"

Arity(cmd) ==
    IF MutOf(cmd) = "add" THEN 1
    ELSE IF MutOf(cmd) = "bind" THEN 3
    ELSE 2

\* C7: a command with fewer or more arguments than its opcode takes makes
\* deploy_to return an error with positional context and leaves the graph
\* as it was.
C7_ArityEnforced ==
    ( /\ last.kind # "none"
      /\ MutOf(last.cmd) # "none"
      /\ Len(Args(LINE(last.cmd).inner)) # Arity(last.cmd) )
    => /\ pc = "err"
       /\ result.chain[1] = E("Failure at the command no.", last.k, <<last.cmd>>)
       /\ Visible(Graph) = Visible(last.pre)

\* C8: deploy_to ends with Ok after every command, or with Err at the first
\* failing command, and in no other way.
C8_OkOrErr ==
    /\ pc # "panic"
    /\ pc = "ok" => result.tag = "Ok" /\ Len(log) = Len(cmds)
    /\ pc = "err" => result.tag = "Err"

\* C9 as stated: when the command of index k fails, the counter is already
\* k + 1.
C9_IncrementedBeforeFailure ==
    pc = "err" => pos = Len(log) + 1

\* C9 as amended: the counter is incremented only after a command has
\* succeeded; when the command of index k fails, the counter is k.
C9_CountAtFailure ==
    pc = "err" => pos = Len(log) /\ pos = result.chain[1].k

\* the third command fails
C9_Witness ==
    /\ pc = "err"
    /\ pos = 2
    /\ last.k = 2

\* C10: every deploy_to call starts with an empty variable table.
C10_TablePerDeployment ==
    InCall => vars0 = EmptyMap

\* C11: a command that fails leaves the graph, the fresh-id allocator and
\* the variable table exactly as they were before the command started.
C11_AllOrNothing ==
    last.kind = "err" => Graph = last.pre /\ vars = last.vars

\* C12: two payload strings that differ only in spaces, tabs, newlines,
\* carriage returns, '-' characters or the case of hex letters get the same
\* outcome from parse_data: both fail, or both succeed with the same bytes.
C12_SeparatorsAndCase ==
    (pc = "idle" /\ out # NoData) =>
        \A h \in Payloads :
            CanonOf[h] = CanonOf[arg] =>
                LET r == parse_data(h)
                IN  r.ok = out.ok /\ r.bytes = out.bytes

\* parse_data has decoded "A-0", which other strings are equal to but for
\* separators and case
C12_Witness ==
    /\ pc = "idle"
    /\ arg = <<"A", "-", "0">>
    /\ out.ok
    /\ out.bytes = <<160>>
    /\ \E h \in Payloads : h # arg /\ CanonOf[h] = CanonOf[arg]

\* C13: parse_data accepts its input exactly when what is left once the
\* separators are removed is a non-empty, even number of hex digits; the
\* bytes are then the pairs of digits decoded in order, half as many as the
\* digits. Any other input fails with "Can't parse data '<s>'", and a PUT
\* with such a payload puts nothing on the graph.
C13_ParseData ==
    out # NoData =>
        LET d == Remainder(arg)
            accept == /\ Len(d) > 0
                      /\ Len(d) % 2 = 0
                      /\ \A i \in 1..Len(d) : d[i] \in DOMAIN HexTable
        IN  /\ out.ok = accept
            /\ accept =>
                  /\ Len(out.bytes) * 2 = Len(d)
                  /\ \A i \in 1..Len(out.bytes) :
                        out.bytes[i] = 16 * HexTable[d[2 * i - 1]] + HexTable[d[2 * i]]
            /\ ~accept => out.err = <<E("Can't parse data", -1, <<arg>>)>>
            /\ pc = "ok" => accept /\ data = (0 :> out.bytes)
            /\ pc = "err" =>
                  /\ ~accept
                  /\ result.chain[Len(result.chain)] =
                         E("Can't parse data", -1, <<trim(arg)>>)
            /\ pc \in {"err", "panic"} => log = <<>> /\ Visible(Graph) = Visible(g0)

\* a payload of three hex digits was refused, and the PUT with it failed
C13_Witness ==
    /\ pc = "err"
    /\ \A i \in 1..Len(arg) : arg[i] \in DOMAIN HexTable
    /\ Len(arg) = 3
    /\ ~out.ok
    /\ data = EmptyMap

\* C14: a successful ADD makes the vertex count one more than it was; a
\* BIND, a PUT or a command that fails leaves the vertex count as it was.
C14_VertexCount ==
    last.kind # "none" =>
        len(Graph) = len(last.pre) +
            (IF last.kind = "ok" /\ MutOf(last.cmd) = "add" THEN 1 ELSE 0)

\* an ADD of a variable and a PUT were applied to a graph of two vertices,
\* a third command failed, and the graph has three vertices
C14_Witness ==
    /\ pc = "err"
    /\ Len(log) = 2
    /\ log[1].mut.op = "add"
    /\ log[2].mut.op = "put"
    /\ len(g0) = 2
    /\ len(Graph) = 3
    /\ DOMAIN vars # {}

\* C15: in a call of deploy_to the `$name` arguments are resolved in the
\* order of the text, command after command and left to right within a
\* command, and the calls of next_id() are, one for one and in that order,
\* the first references of the names that are not bound yet; a reference to
\* a bound name and a literal reference call next_id() never.
C15_AllocationOrder ==
    pc \in {"ok", "err", "panic"} =>
        LET names == [i \in 1..Len(refs) |-> refs[i][1]]
            done == NamesOf(log, Len(log))
        IN  /\ pc = "ok" => names = done
            /\ pc # "ok" => /\ IsPrefix(done, names)
                            /\ IsPrefix(names, done \o VarNames(last.cmd))
            /\ Len(allocs) = Cardinality(FirstRefs)
            /\ \A i \in FirstRefs :
                  allocs[Cardinality({j \in FirstRefs : j <= i})] = refs[i][2]

\* BIND($a,$b,x) came after a command that bound $a, and resolved both its
\* arguments: one call of next_id() for each of the two names, none for the
\* second reference to $a
C15_Witness ==
    /\ pc = "err"
    /\ Len(log) = 1
    /\ Len(refs) = 3
    /\ refs[1][1] = <<"a">>
    /\ refs[2][1] = <<"a">>
    /\ refs[3][1] = <<"b">>
    /\ Len(allocs) = 2
    /\ vars0 = EmptyMap

C17_ReferentialIntegrity ==
    /\ WellFormed(Graph)
    /\ last.kind # "none" =>
          LET cap == LINE(last.cmd)
              a == Args(cap.inner)
              v == SubSeq(a, 1, IF cap.op = OP_BIND THEN 2 ELSE 1)
          IN  ( /\ cap.op \in {OP_BIND, OP_PUT}
                /\ Len(a) = (IF cap.op = OP_BIND THEN 3 ELSE 2)
                /\ cap.op = OP_PUT => parse_data(a[2]).ok
                /\ \A i \in 1..Len(v) : IdOf(v[i]) # -1
                /\ \E i \in 1..Len(v) : IdOf(v[i]) \notin last.pre.vertices )
              => /\ pc = "err"
                 /\ Len(result.chain) > 2
                 /\ result.chain[2] = IF cap.op = OP_BIND
                                      THEN E("Failed to BIND", -1, a)
                                      ELSE E("Failed to PUT", -1, v)
                 /\ Visible(Graph) = Visible(last.pre)

\* a BIND to a vertex that was never added failed, after a command that
\* changed a graph with an edge and a payload
C17_Witness ==
    /\ pc = "err"
    /\ MutOf(last.cmd) = "bind"
    /\ result.chain[2].msg = "Failed to BIND"
    /\ \E i \in 1..2 : IdOf(VertexArgs(last.cmd)[i]) \notin vertices
    /\ Len(log) > 0
    /\ edges # {}
    /\ DOMAIN data # {}

\* C18: a command that fails before any of its arguments is resolved, for
\* its shape ("Can't parse '<cmd>'") or for its opcode ("Unknown command:
\* <opcode>", with any number of arguments), leaves the graph, the allocator
\* and the variable table as they were, also when its arguments hold
\* `$name` references that are not bound. Stated of the command that has
\* just failed so, and of deploy_one on other such commands in that state.
C18_EarlyFailure ==
    (last.kind # "none" /\ MutOf(last.cmd) = "none") =>
        /\ pc = "err"
        /\ result.chain =
               <<E("Failure at the command no.", last.k, <<last.cmd>>),
                 IF LINE(last.cmd).matched
                 THEN E("Unknown command", -1, <<LINE(last.cmd).op>>)
                 ELSE E("Can't parse", -1, <<last.cmd>>)>>
        /\ Graph = last.pre
        /\ vars = last.vars
        /\ \A c \in Shapeless :
              deploy_one(c, St) = {Failed(St, <<E("Can't parse", -1, <<c>>)>>)}
        /\ \A c \in Unknown :
              deploy_one(c, St) =
                  {Failed(St, <<E("Unknown command", -1, <<<<"N", "O", "P">>>>)>>)}

\* DEL($b) failed while $b was not bound, after a command that bound $a
C18_Witness ==
    /\ pc = "err"
    /\ LINE(last.cmd).op = <<"D", "E", "L">>
    /\ Args(LINE(last.cmd).inner) = <<<<"$", "b">>>>
    /\ <<"b">> \notin DOMAIN vars
    /\ <<"a">> \in DOMAIN vars
    /\ Len(log) > 0

\* C19: a `#` comment that a line break ends is removed with everything in
\* it, a ';' included, and gives no command; a `#` comment that the end of
\* the text ends is not removed: it is a command, at which deploy_to fails
\* with "Can't parse '<cmd>'" once all the commands before it are applied.
C19_Comments ==
    /\ (pc = "run" /\ calls = 1 /\ last.kind = "none") =>
          /\ Content(Concat(cmds), 1) = Content(txt, 1)
          /\ (\E i \in 1..Len(cmds) : Holds(cmds[i], "#"))
                <=> (\E i \in 1..Len(txt) : txt[i] = "#" /\ ~InComment(txt, i))
    /\ \A i \in 1..Len(cmds) : Head(cmds[i]) = "#" => Len(log) < i
    /\ (last.kind # "none" /\ Head(last.cmd) = "#") =>
          /\ pc = "err"
          /\ result.chain = <<E("Failure at the command no.", Len(log), <<last.cmd>>),
                              E("Can't parse", -1, <<last.cmd>>)>>
          /\ last.cmd = cmds[Len(log) + 1]
          /\ \A k \in 1..Len(log) : log[k].cmd = cmds[k]

\* a comment with a ';' in it was removed, three commands were applied, and
\* deploy_to failed at the comment that the end of the text ends
C19_Witness ==
    /\ pc = "err"
    /\ Len(log) = 3
    /\ last.cmd = <<"#", "c">>
    /\ Len(cmds) = 4
    /\ \E i \in 1..Len(txt) : txt[i] = ";" /\ InComment(txt, i)

====
